---- MODULE Spec2Model ----
(***************************************************************************)
(* Street Time Machine backend: the matching and ranking engine of         *)
(* backend/app/enhanced_utils.py, the location fusion of                   *)
(* backend/app/ai_vision.py and the /process-photo handler of              *)
(* backend/app/main.py; the spatial query of backend/app/database.py, the  *)
(* curation cycle of backend/app/photo_curator.py and the feedback         *)
(* endpoint of backend/app/curation_api.py.                                *)
(*                                                                         *)
(* Conventions of the model                                                *)
(*  - Python None is the empty sequence <<>>, a present value x is <<x>>.  *)
(*  - A coordinate is a position on the tangent plane at the city-centre   *)
(*    coordinate (41.8781, -87.6278): its latitude is the distance in      *)
(*    metres north of it, its longitude the distance in metres east of it. *)
(*    At the distances of a city the haversine formula of                  *)
(*    calculate_distance is the Euclidean distance of the plane, rounded   *)
(*    down here to whole metres; on one meridian it is R * |dlat|, the     *)
(*    absolute difference of the latitudes.  The matcher, fusion and       *)
(*    pipeline studies keep all coordinates on the meridian of the centre. *)
(*  - Distances are metres (the code: kilometres as floats), scores are    *)
(*    ten-thousandths, interest scores, likelihoods and fusion             *)
(*    confidences are hundredths.  Arithmetic is exact decimal arithmetic. *)
(*  - A candidate is the index of its entry in the catalog list; the       *)
(*    filters keep list order, as the Python loops do.                     *)
(***************************************************************************)
EXTENDS Integers, Sequences, FiniteSets, TLC

VARIABLES
    catalog,       \* historical_db: the list CHICAGO_HISTORICAL_PHOTOS
    pc,            \* position of the call under study: "start" or "done"
    request,       \* the /process-photo request, <<>> when no request is modelled
    metadata,      \* the metadata dict built by extract_enhanced_metadata
    search,        \* the locals of find_best_historical_match
    match_result,  \* its return value: <<>> or <<match>>
    confidence,    \* the value of calculate_confidence_score: <<>> or <<n>>
    response,      \* the HTTP response of process_photo: <<>> or <<r>>
    selected,      \* candidate selection per radius tried (selector study)
    calls,         \* concurrent calls of find_best_historical_match, per worker
    db,            \* the database tables, <<>> when no database is modelled
    curator,       \* the fields and the progress of an AIPhotoCurator
    args,          \* the arguments of the call under study
    returned       \* the value or the response of the call under study

vars == <<catalog, pc, request, metadata, search, match_result, confidence,
          response, selected, calls, db, curator, args, returned>>

-----------------------------------------------------------------------------
(* Bounds and program constants *)

MaxCatalog == 2
MaxPipelineCatalog == 2

RADIUS_M == 1000
TOLERANCE_DEGREES == 60
DEFAULT_ARC_START == 0
DEFAULT_ARC_END == 360
DEFAULT_INTEREST == 50
BASE_CONFIDENCE == 50
DEFAULT_LOCATION_CONFIDENCE == 30
CONFIDENCE_MIN == 20
CONFIDENCE_MAX == 95

-----------------------------------------------------------------------------
(* Python helpers *)

None == <<>>

Some(x) == <<x>>

IsNone(x) == x = <<>>

Val(x) == x[1]

Abs(x) == IF x < 0 THEN -x ELSE x

Min(a, b) == IF a <= b THEN a ELSE b

Max(a, b) == IF a >= b THEN a ELSE b

\* int(n/d): Python's int() truncates toward zero
IntDiv(n, d) == IF n >= 0 THEN n \div d ELSE -((-n) \div d)

Range(s) == {s[i] : i \in DOMAIN s}

\* dict.get(key, default) for an optional field
Get(opt, default) == IF IsNone(opt) THEN default ELSE Val(opt)

-----------------------------------------------------------------------------
(* Geodesy: calculate_distance of enhanced_utils and of database, in metres *)

RECURSIVE SqrtFrom(_, _)
\* Newton's iteration from above: the largest r with r * r <= n
SqrtFrom(n, r) ==
    IF r = 0 \/ r <= n \div r THEN r ELSE SqrtFrom(n, (r + n \div r) \div 2)

Sqrt(n) == SqrtFrom(n, n)

\* a distance that keeps the sign of the displacement to the north
calculate_distance_signed(lat1, lon1, lat2, lon2) ==
    LET dlat == lat2 - lat1
        dlon == lon2 - lon1
    IN  IF dlat >= 0 THEN Sqrt(dlat * dlat + dlon * dlon)
        ELSE -Sqrt(dlat * dlat + dlon * dlon)

calculate_distance(lat1, lon1, lat2, lon2) ==
    LET dlat == lat2 - lat1
        dlon == lon2 - lon1
    IN  IF dlon = 0 THEN Abs(dlat) ELSE Sqrt(dlat * dlat + dlon * dlon)

-----------------------------------------------------------------------------
(* Candidate selector *)

\* a proximity filter that also drops the entries nearer than half the radius
filter_by_proximity_ring(database, lat, lon, radius) ==
    LET Near(i) ==
            /\ calculate_distance(lat, lon, database[i].latitude, database[i].longitude) <= radius
            /\ 2 * calculate_distance(lat, lon, database[i].latitude, database[i].longitude) >= radius
    IN  SelectSeq([i \in 1..Len(database) |-> i], Near)

\* a proximity filter that searches twice the radius
filter_by_proximity_twice(database, lat, lon, radius) ==
    LET Near(i) ==
            calculate_distance(lat, lon, database[i].latitude, database[i].longitude)
                <= 2 * radius
    IN  SelectSeq([i \in 1..Len(database) |-> i], Near)

\* a proximity filter that widens the radius to twice its value when nothing
\* lies within it
filter_by_proximity_widening(database, lat, lon, radius) ==
    LET Near(i) ==
            calculate_distance(lat, lon, database[i].latitude, database[i].longitude) <= radius
        Wide(i) ==
            calculate_distance(lat, lon, database[i].latitude, database[i].longitude) <= 2 * radius
        near == SelectSeq([i \in 1..Len(database) |-> i], Near)
    IN  IF near # <<>> THEN near ELSE SelectSeq([i \in 1..Len(database) |-> i], Wide)

\* for item in database: if distance <= radius_km: candidates.append(item)
filter_by_proximity(database, lat, lon, radius) ==
    LET Near(i) ==
            calculate_distance(lat, lon, database[i].latitude, database[i].longitude) <= radius
    IN  SelectSeq([i \in 1..Len(database) |-> i], Near)

\* the test of one candidate in filter_by_heading
\* heading test that reads every arc as start <= heading <= end
HeadingPasses_nowrap(entry, user_heading, tolerance_degrees) ==
    LET start == Get(entry.viewing_direction_start, DEFAULT_ARC_START)
        end == Get(entry.viewing_direction_end, DEFAULT_ARC_END)
        in_range == start <= user_heading /\ user_heading <= end
    IN  \/ in_range
        \/ \E h \in {start, end} : Abs(user_heading - h) <= tolerance_degrees

HeadingPasses(entry, user_heading, tolerance_degrees) ==
    LET start == Get(entry.viewing_direction_start, DEFAULT_ARC_START)
        end == Get(entry.viewing_direction_end, DEFAULT_ARC_END)
        in_range == IF start <= end
                    THEN start <= user_heading /\ user_heading <= end
                    ELSE user_heading >= start \/ user_heading <= end
    IN  \/ in_range
        \/ \E h \in {start, end} : Abs(user_heading - h) <= tolerance_degrees

filter_by_heading(candidates, database, user_heading, tolerance_degrees) ==
    IF IsNone(user_heading)
    THEN candidates
    ELSE LET Keep(i) == HeadingPasses(database[i], Val(user_heading), tolerance_degrees)
         IN  SelectSeq(candidates, Keep)

\* Strategy 2 of find_best_historical_match with the fallback dropped
HeadingRefine_nofallback(proximity, database, heading) ==
    IF IsNone(heading)
    THEN [heading_filtered |-> <<>>, candidates |-> proximity]
    ELSE LET hf == filter_by_heading(proximity, database, heading, TOLERANCE_DEGREES)
         IN  [heading_filtered |-> hf, candidates |-> hf]

\* Strategy 2 of find_best_historical_match: the heading filter replaces the
\* candidates only when it keeps at least one of them
HeadingRefine(proximity, database, heading) ==
    IF IsNone(heading)
    THEN [heading_filtered |-> <<>>, candidates |-> proximity]
    ELSE LET hf == filter_by_heading(proximity, database, heading, TOLERANCE_DEGREES)
         IN  [heading_filtered |-> hf,
              candidates |-> IF hf # <<>> THEN hf ELSE proximity]

\* Strategies 1 and 2 for a given radius: proximity filter, then heading
\* filter with fallback
SelectCandidates(database, lat, lon, heading, radius) ==
    LET proximity == filter_by_proximity(database, lat, lon, radius)
        refined == IF proximity = <<>>
                   THEN [heading_filtered |-> <<>>, candidates |-> <<>>]
                   ELSE HeadingRefine(proximity, database, heading)
    IN  [proximity |-> proximity,
         heading_filtered |-> refined.heading_filtered,
         candidates |-> refined.candidates]

-----------------------------------------------------------------------------
(* Match scorer *)

\* the body of the scoring loop for one candidate
\* scoring that weighs a landmark match three times lighter
ScoreCandidate_lightlandmarks(i, database, lat, lon, ai_landmarks) ==
    LET candidate == database[i]
        distance == calculate_distance(lat, lon, candidate.latitude, candidate.longitude)
        distance_score == Max(0, 2000 - distance)
        landmark_matches == Cardinality(ai_landmarks \cap candidate.landmarks)
        landmark_score == Min(landmark_matches * 3, 10)
        interest_score == Get(candidate.historical_interest_score, DEFAULT_INTEREST)
        combined_score == distance_score * 2 + landmark_score * 100 + interest_score * 30
    IN  [idx |-> i,
         entry |-> candidate,
         match_score |-> combined_score,
         distance_meters |-> distance,
         landmark_matches |-> landmark_matches]

\* scoring whose landmark term is not capped at 1
ScoreCandidate_uncapped(i, database, lat, lon, ai_landmarks) ==
    LET candidate == database[i]
        distance == calculate_distance(lat, lon, candidate.latitude, candidate.longitude)
        distance_score == Max(0, 2000 - distance)
        landmark_matches == Cardinality(ai_landmarks \cap candidate.landmarks)
        landmark_score == landmark_matches * 3
        interest_score == Get(candidate.historical_interest_score, DEFAULT_INTEREST)
        combined_score == distance_score * 2 + landmark_score * 300 + interest_score * 30
    IN  [idx |-> i,
         entry |-> candidate,
         match_score |-> combined_score,
         distance_meters |-> distance,
         landmark_matches |-> landmark_matches]

ScoreCandidate(i, database, lat, lon, ai_landmarks) ==
    LET candidate == database[i]
        distance == calculate_distance(lat, lon, candidate.latitude, candidate.longitude)
        distance_score == Max(0, 2000 - distance)              \* in 1/2000
        landmark_matches == Cardinality(ai_landmarks \cap candidate.landmarks)
        landmark_score == Min(landmark_matches * 3, 10)        \* in tenths
        interest_score == Get(candidate.historical_interest_score, DEFAULT_INTEREST)
        combined_score == distance_score * 2 + landmark_score * 300 + interest_score * 30
    IN  [idx |-> i,
         entry |-> candidate,
         match_score |-> combined_score,
         distance_meters |-> distance,
         landmark_matches |-> landmark_matches]

ScoreAll(candidates, database, lat, lon, ai_landmarks) ==
    [k \in 1..Len(candidates) |-> ScoreCandidate(candidates[k], database, lat, lon, ai_landmarks)]

\* max() that keeps the last of several maximal elements
BestOf_last(scored_candidates) ==
    LET k == CHOOSE k \in 1..Len(scored_candidates) :
                 /\ \A j \in 1..Len(scored_candidates) :
                        scored_candidates[j].match_score <= scored_candidates[k].match_score
                 /\ \A j \in (k+1)..Len(scored_candidates) :
                        scored_candidates[j].match_score < scored_candidates[k].match_score
    IN  scored_candidates[k]

\* max() that compares the wrong way round
BestOf_min(scored_candidates) ==
    LET k == CHOOSE k \in 1..Len(scored_candidates) :
                 /\ \A j \in 1..Len(scored_candidates) :
                        scored_candidates[j].match_score >= scored_candidates[k].match_score
                 /\ \A j \in 1..(k-1) :
                        scored_candidates[j].match_score > scored_candidates[k].match_score
    IN  scored_candidates[k]

\* max(scored_candidates, key=lambda x: x["match_score"]): Python's max
\* returns the first of several maximal elements
BestOf(scored_candidates) ==
    LET k == CHOOSE k \in 1..Len(scored_candidates) :
                 /\ \A j \in 1..Len(scored_candidates) :
                        scored_candidates[j].match_score <= scored_candidates[k].match_score
                 /\ \A j \in 1..(k-1) :
                        scored_candidates[j].match_score < scored_candidates[k].match_score
    IN  scored_candidates[k]

\* best_match["match_method"] = "comprehensive_ai_analysis"
WithMethod(m) ==
    [idx |-> m.idx, entry |-> m.entry, match_score |-> m.match_score,
     distance_meters |-> m.distance_meters, landmark_matches |-> m.landmark_matches,
     match_method |-> "comprehensive_ai_analysis"]

\* metadata.get("enhanced_location", {}).get("ai_analysis", {}).get("landmarks", [])
AiLandmarks(md) ==
    IF IsNone(md.enhanced_location) THEN {} ELSE Val(md.enhanced_location).ai_analysis.landmarks

\* metadata.get("best_location") or metadata.get("gps")
MatchLocation(md) == IF ~IsNone(md.best_location) THEN md.best_location ELSE md.gps

NoSearch == [ran |-> FALSE, location |-> None, proximity |-> <<>>,
             heading_filtered |-> <<>>, candidates |-> <<>>, scored_candidates |-> <<>>]

\* find_best_historical_match: its locals and its return value
find_best_historical_match(md, historical_db) ==
    LET location == MatchLocation(md)
    IN  IF IsNone(location)
        THEN [locals |-> NoSearch, result |-> None]
        ELSE LET lat == Val(location).latitude
                 lon == Val(location).longitude
                 sel == SelectCandidates(historical_db, lat, lon, md.heading, RADIUS_M)
                 scored == ScoreAll(sel.candidates, historical_db, lat, lon, AiLandmarks(md))
             IN  [locals |-> [ran |-> TRUE, location |-> location,
                              proximity |-> sel.proximity,
                              heading_filtered |-> sel.heading_filtered,
                              candidates |-> sel.candidates,
                              scored_candidates |-> scored],
                  result |-> IF scored # <<>> THEN Some(WithMethod(BestOf(scored))) ELSE None]

-----------------------------------------------------------------------------
(* Confidence estimator *)

\* ai_analysis.get("chicago_likelihood", 0) and ai_analysis.get("landmarks")
\* of metadata.get("enhanced_location", {}).get("ai_analysis", {})
AiLikelihood(md) ==
    IF IsNone(md.enhanced_location) THEN 0
    ELSE Val(md.enhanced_location).ai_analysis.chicago_likelihood

\* enhanced_location.get("confidence_score", 0.3)
LocationConfidence(md) ==
    IF IsNone(md.enhanced_location) THEN DEFAULT_LOCATION_CONFIDENCE
    ELSE Val(md.enhanced_location).confidence_score

\* the sum before clamping
ConfidenceSum(md, match) ==
    LET c1 == BASE_CONFIDENCE + IntDiv(LocationConfidence(md) * 30, 100)
        c2 == IF AiLikelihood(md) > 70 THEN c1 + 15 ELSE c1
        c3 == IF AiLandmarks(md) # {} THEN c2 + 10 ELSE c2
        distance_m == match.distance_meters
        c4 == IF distance_m < 200 THEN c3 + 20
              ELSE IF distance_m < 500 THEN c3 + 10
              ELSE IF distance_m > 1500 THEN c3 - 15
              ELSE c3
        c5 == IF match.landmark_matches > 0 THEN c4 + match.landmark_matches * 5 ELSE c4
        c6 == IF ~IsNone(md.heading) THEN c5 + 8 ELSE c5
    IN  c6 + IntDiv(match.match_score * 20, 10000)

\* calculate_confidence_score with the upper clamp forgotten
calculate_confidence_score_noceiling(md, match) ==
    Max(ConfidenceSum(md, match), CONFIDENCE_MIN)

\* calculate_confidence_score with the 200 m boundary in the nearer band
calculate_confidence_score_inclusive(md, match) ==
    LET shifted == [match EXCEPT !.distance_meters =
                        IF @ = 200 THEN 199 ELSE @]
    IN  Min(Max(ConfidenceSum(md, shifted), CONFIDENCE_MIN), CONFIDENCE_MAX)

calculate_confidence_score(md, match) ==
    Min(Max(ConfidenceSum(md, match), CONFIDENCE_MIN), CONFIDENCE_MAX)

-----------------------------------------------------------------------------
(* Vision analysis and location fusion: ai_vision.py *)

chicago_keywords ==
    {"chicago", "loop", "magnificent mile", "lake michigan", "chi-town", "windy city",
     "el train", "elevated", "wrigley", "sears tower", "willis tower", "navy pier",
     "millennium park", "grant park", "lincoln park", "gold coast", "river north"}

chicago_landmarks ==
    {"Chicago Theater", "Willis Tower", "Sears Tower", "Navy Pier", "Millennium Park",
     "Grant Park", "Wrigley Field", "Union Station", "Art Institute", "Lincoln Park Zoo",
     "Buckingham Fountain", "Chicago Riverwalk", "Magnificent Mile", "State Street"}

\* landmark.lower() for the landmarks the modelled answers can mention
Lower(landmark) ==
    CASE landmark = "Navy Pier" -> "navy pier"
      [] landmark = "Grant Park" -> "grant park"
      [] landmark = "Millennium Park" -> "millennium park"
      [] landmark = "Willis Tower" -> "willis tower"
      [] landmark = "Sears Tower" -> "sears tower"
      [] landmark = "Magnificent Mile" -> "magnificent mile"
      [] OTHER -> "-"

AiAnalysis(lms, likelihood) == [landmarks |-> lms, chicago_likelihood |-> likelihood]

\* parse_ai_analysis; ai_text is the set of phrases the answer contains
parse_ai_analysis(ai_text) ==
    LET chicago_mentions == Cardinality(chicago_keywords \cap ai_text)
    IN  AiAnalysis({l \in chicago_landmarks : Lower(l) \in ai_text},
                   Min(90, 30 + chicago_mentions * 15))

fallback_analysis == AiAnalysis({}, 50)

\* analyze_photo_with_ai; vision is <<>> when the key is missing or the call
\* raises, and <<ai_text>> when the provider answers
analyze_photo_with_ai(vision) ==
    IF IsNone(vision) THEN fallback_analysis ELSE parse_ai_analysis(Val(vision))

LONGITUDE == 0

\* a location dict; accuracy is <<>> when the key is missing, source names
\* where the coordinate came from
Coordinate(la, acc, src) ==
    [latitude |-> la, longitude |-> LONGITUDE, accuracy |-> acc, source |-> src]

\* the downtown coordinates (41.8781, -87.6278) adopted on AI inference
AI_INFERENCE_LOCATION == Coordinate(0, Some(1000), "ai_inference")

EnhancedLocation(ai, final, conf) ==
    [ai_analysis |-> ai, final_location |-> final, confidence_score |-> conf]

\* the fusion steps with the accuracy limit, the precedence of the area
\* inference and the ceiling left open, for the variants below
FusionVariant(vision, exif_gps, user_gps, limit, override, ceiling) ==
    LET ai_analysis == analyze_photo_with_ai(vision)
        use_user == ~IsNone(user_gps) /\ Get(Val(user_gps).accuracy, 1000) < limit
        use_exif == ~use_user /\ ~IsNone(exif_gps)
        gps_location == IF use_user THEN user_gps ELSE IF use_exif THEN exif_gps ELSE None
        s1 == 30 + (IF use_user THEN 40 ELSE IF use_exif THEN 30 ELSE 0)
        s2 == IF ai_analysis.chicago_likelihood > 60 THEN s1 + 20 ELSE s1
        s3 == IF ai_analysis.landmarks # {} THEN s2 + 10 ELSE s2
        infer == (override \/ IsNone(gps_location)) /\ ai_analysis.chicago_likelihood > 70
    IN  EnhancedLocation(ai_analysis,
                         IF infer THEN Some(AI_INFERENCE_LOCATION) ELSE gps_location,
                         Min(IF infer THEN s3 + 20 ELSE s3, ceiling))

\* fusion that adopts the device GPS up to and including 100 m accuracy
enhance_location_detection_inclusive(vision, exif_gps, user_gps) ==
    FusionVariant(vision, exif_gps, user_gps, 101, FALSE, 95)

\* fusion whose area inference replaces an adopted GPS coordinate
enhance_location_detection_override(vision, exif_gps, user_gps) ==
    FusionVariant(vision, exif_gps, user_gps, 100, TRUE, 95)

\* fusion that forgets the ceiling of the confidence
enhance_location_detection_noceiling(vision, exif_gps, user_gps) ==
    FusionVariant(vision, exif_gps, user_gps, 100, FALSE, 1000)

enhance_location_detection(vision, exif_gps, user_gps) ==
    LET ai_analysis == analyze_photo_with_ai(vision)
        use_user == ~IsNone(user_gps) /\ Get(Val(user_gps).accuracy, 1000) < 100
        use_exif == ~use_user /\ ~IsNone(exif_gps)
        gps_location == IF use_user THEN user_gps ELSE IF use_exif THEN exif_gps ELSE None
        s1 == 30 + (IF use_user THEN 40 ELSE IF use_exif THEN 30 ELSE 0)
        s2 == IF ai_analysis.chicago_likelihood > 60 THEN s1 + 20 ELSE s1
        s3 == IF ai_analysis.landmarks # {} THEN s2 + 10 ELSE s2
        infer == IsNone(gps_location) /\ ai_analysis.chicago_likelihood > 70
    IN  EnhancedLocation(ai_analysis,
                         IF infer THEN Some(AI_INFERENCE_LOCATION) ELSE gps_location,
                         Min(IF infer THEN s3 + 20 ELSE s3, 95))

Metadata(gps, heading, exif, enhanced, best) ==
    [gps |-> gps, heading |-> heading, exif_gps |-> exif,
     enhanced_location |-> enhanced, best_location |-> best]

\* extract_enhanced_metadata that keeps only the fused location
extract_enhanced_metadata_fusedonly(gps_data, heading, exif_gps, vision) ==
    LET enhanced_location == enhance_location_detection(vision, exif_gps, gps_data)
    IN  Metadata(gps_data, heading, exif_gps, Some(enhanced_location),
                 enhanced_location.final_location)

\* extract_enhanced_metadata; exif_gps is what parse_gps_from_exif finds in
\* the image bytes
extract_enhanced_metadata(gps_data, heading, exif_gps, vision) ==
    LET enhanced_location == enhance_location_detection(vision, exif_gps, gps_data)
    IN  Metadata(gps_data, heading, exif_gps, Some(enhanced_location),
                 IF ~IsNone(enhanced_location.final_location)
                 THEN enhanced_location.final_location
                 ELSE gps_data)

-----------------------------------------------------------------------------
(* Catalogs and inputs of the matcher study *)

Arcs == {<<350, 10>>, <<0, 90>>}

Latitudes == {0, 150, 600, 1200}

Interests == {80, 90}

LandmarkSets == {{}, {"Navy Pier"}}

EntriesOver(lats, arcs, interests, lms) ==
    {[latitude |-> la, longitude |-> LONGITUDE,
      viewing_direction_start |-> Some(a[1]), viewing_direction_end |-> Some(a[2]),
      landmarks |-> lm, historical_interest_score |-> Some(s)] :
        la \in lats, a \in arcs, s \in interests, lm \in lms}

CatalogsOver(entries, n) == UNION {[1..k -> entries] : k \in 0..n}

Headings == {None, Some(5), Some(200), Some(350)}

NoMetadata == Metadata(None, None, None, None, None)

\* metadata handed to find_best_historical_match in the matcher study
MatchMetadata ==
    LET locations == {None, Some(Coordinate(0, None, "user_gps")),
                      Some(Coordinate(150, None, "user_gps"))}
    IN  {Metadata(None, h, None, Some(EnhancedLocation(AiAnalysis(lm, 50), loc, 30)), loc) :
            h \in Headings, lm \in LandmarkSets, loc \in locations}
        \cup
        \* fusion raised: no enhanced_location, best_location is the device GPS
        {Metadata(loc, h, None, None, loc) : h \in Headings, loc \in locations}

InitMatch ==
    /\ catalog \in CatalogsOver(EntriesOver(Latitudes, Arcs, Interests, LandmarkSets), MaxCatalog)
    /\ metadata \in MatchMetadata
    /\ pc = "start"
    /\ request = None
    /\ search = NoSearch
    /\ match_result = None
    /\ confidence = None
    /\ response = None
    /\ selected = <<>>
    /\ calls = <<>>
    /\ db = <<>>
    /\ curator = <<>>
    /\ args = <<>>
    /\ returned = <<>>

CallFindBest ==
    /\ pc = "start"
    /\ LET r == find_best_historical_match(metadata, catalog)
       IN  /\ search' = r.locals
           /\ match_result' = r.result
    /\ pc' = "done"
    /\ UNCHANGED <<catalog, request, metadata, confidence, response, selected,
                   calls, db, curator, args, returned>>

NextMatch == CallFindBest

SpecMatch == InitMatch /\ [][NextMatch]_vars

-----------------------------------------------------------------------------
(* The /process-photo handler: main.py *)

Exception(kind, status, detail) == [kind |-> kind, status |-> status, detail |-> detail]

Response(status, detail, match, conf) ==
    [status |-> status, detail |-> detail, match |-> match, confidence |-> conf]

\* the except clauses of process_photo: a JSONDecodeError becomes a 400, every
\* other exception (an HTTPException raised in the try block included) a 500
HandlerExcept(exc) ==
    IF exc.kind = "JSONDecodeError"
    THEN Response(400, "Invalid metadata format", None, None)
    ELSE Response(500, "Processing error", None, None)

\* response_data = {"historical_url": match_result["url"], ...}: the subscript
\* raises KeyError when the entry has no "url" key
BuildResponse(match, conf) ==
    IF "url" \in DOMAIN match.entry
    THEN Response(200, "ok", Some(match), Some(conf))
    ELSE HandlerExcept(Exception("KeyError", 500, "url"))

NotFound == Response(404, "No historical photos found for this location", None, None)

\* process_photo: the metadata, the matcher's locals, the match, the
\* confidence and the response of one request
process_photo(req, historical_db) ==
    LET early(resp) == [metadata |-> NoMetadata,
                        locals |-> NoSearch, match |-> None, confidence |-> None,
                        response |-> resp]
    IN  IF ~req.metadata_ok
        THEN early(HandlerExcept(Exception("JSONDecodeError", 400, "metadata")))
        ELSE IF IsNone(req.gps)
        THEN early(HandlerExcept(Exception("HTTPException", 400, "GPS location required")))
        ELSE IF ~req.image_ok
        THEN early(HandlerExcept(Exception("HTTPException", 400, "Invalid image")))
        ELSE LET md == extract_enhanced_metadata(req.gps, req.heading, req.exif_gps, req.vision)
                 found == find_best_historical_match(md, historical_db)
             IN  IF IsNone(found.result)
                 THEN [metadata |-> md, locals |-> found.locals, match |-> None,
                       confidence |-> None, response |-> NotFound]
                 ELSE LET conf == calculate_confidence_score(md, Val(found.result))
                      IN  [metadata |-> md, locals |-> found.locals, match |-> found.result,
                           confidence |-> Some(conf),
                           response |-> BuildResponse(Val(found.result), conf)]

AiTexts == SUBSET {"chicago", "loop", "navy pier"}

Requests ==
    [metadata_ok : BOOLEAN,
     image_ok : BOOLEAN,
     gps : {None, Some(Coordinate(0, Some(50), "user_gps")),
            Some(Coordinate(0, Some(500), "user_gps")),
            Some(Coordinate(0, None, "user_gps")),
            Some(Coordinate(1200, Some(50), "user_gps")),
            Some(Coordinate(600, Some(500), "user_gps"))},
     heading : {None, Some(5)},
     exif_gps : {None, Some(Coordinate(1200, None, "exif_gps"))},
     vision : {None} \cup {Some(t) : t \in AiTexts}]

Init ==
    /\ catalog \in CatalogsOver(EntriesOver({0, 1200}, {<<0, 90>>}, {90}, LandmarkSets),
                                 MaxPipelineCatalog)
    /\ request \in {Some(r) : r \in Requests}
    /\ pc = "start"
    /\ metadata = NoMetadata
    /\ search = NoSearch
    /\ match_result = None
    /\ confidence = None
    /\ response = None
    /\ selected = <<>>
    /\ calls = <<>>
    /\ db = <<>>
    /\ curator = <<>>
    /\ args = <<>>
    /\ returned = <<>>

ProcessPhoto ==
    /\ pc = "start"
    /\ \E r \in {process_photo(Val(request), catalog)} :
           /\ metadata' = r.metadata
           /\ search' = r.locals
           /\ match_result' = r.match
           /\ confidence' = r.confidence
           /\ response' = Some(r.response)
    /\ pc' = "done"
    /\ UNCHANGED <<catalog, request, selected, calls, db, curator, args, returned>>

Next == ProcessPhoto

Spec == Init /\ [][Next]_vars

-----------------------------------------------------------------------------
(* Fusion study: extract_enhanced_metadata on arbitrary GPS, EXIF and vision *)

FusionAccuracies == {None, Some(50), Some(99), Some(100), Some(500)}

FusionRequests ==
    [metadata_ok : {TRUE},
     image_ok : {TRUE},
     gps : {None} \cup {Some(Coordinate(la, acc, "user_gps")) :
                            la \in {0, 1200}, acc \in FusionAccuracies},
     heading : {None},
     exif_gps : {None, Some(Coordinate(0, None, "exif_gps")),
                 Some(Coordinate(1200, None, "exif_gps"))},
     vision : {None} \cup {Some(t) : t \in AiTexts}]

InitFusion ==
    /\ catalog = <<>>
    /\ request \in {Some(r) : r \in FusionRequests}
    /\ pc = "start"
    /\ metadata = NoMetadata
    /\ search = NoSearch
    /\ match_result = None
    /\ confidence = None
    /\ response = None
    /\ selected = <<>>
    /\ calls = <<>>
    /\ db = <<>>
    /\ curator = <<>>
    /\ args = <<>>
    /\ returned = <<>>

CallExtract ==
    /\ pc = "start"
    /\ metadata' = extract_enhanced_metadata(Val(request).gps, Val(request).heading,
                                             Val(request).exif_gps, Val(request).vision)
    /\ pc' = "done"
    /\ UNCHANGED <<catalog, request, search, match_result, confidence, response, selected,
                   calls, db, curator, args, returned>>

NextFusion == CallExtract

SpecFusion == InitFusion /\ [][NextFusion]_vars

-----------------------------------------------------------------------------
(* Scorer study: the scoring loop on candidates at any distance *)

ScoreLatitudes == {0, 1000, 2000, 3000}

ScoreInterests == {0, 50, 100}

ScoreLandmarkSets ==
    {{}, {"Navy Pier"}, {"Navy Pier", "Grant Park", "Millennium Park", "Willis Tower"}}

ScoreMetadata ==
    {Metadata(None, None, None, Some(EnhancedLocation(AiAnalysis(lm, 50), loc, 30)), loc) :
        lm \in ScoreLandmarkSets, loc \in {Some(Coordinate(0, None, "user_gps"))}}

InitScore ==
    /\ catalog \in CatalogsOver(EntriesOver(ScoreLatitudes, {<<0, 90>>}, ScoreInterests,
                                            ScoreLandmarkSets), MaxCatalog)
    /\ metadata \in ScoreMetadata
    /\ pc = "start"
    /\ request = None
    /\ search = NoSearch
    /\ match_result = None
    /\ confidence = None
    /\ response = None
    /\ selected = <<>>
    /\ calls = <<>>
    /\ db = <<>>
    /\ curator = <<>>
    /\ args = <<>>
    /\ returned = <<>>

\* the loop over the candidates, here every entry of the catalog
CallScore ==
    /\ pc = "start"
    /\ LET location == MatchLocation(metadata)
           candidates == [i \in 1..Len(catalog) |-> i]
       IN  search' = [NoSearch EXCEPT
                         !.ran = TRUE,
                         !.location = location,
                         !.candidates = candidates,
                         !.scored_candidates =
                             ScoreAll(candidates, catalog, Val(location).latitude,
                                      Val(location).longitude, AiLandmarks(metadata))]
    /\ pc' = "done"
    /\ UNCHANGED <<catalog, request, metadata, match_result, confidence, response, selected,
                   calls, db, curator, args, returned>>

NextScore == CallScore

SpecScore == InitScore /\ [][NextScore]_vars

-----------------------------------------------------------------------------
(* Distance study: calculate_distance on pairs of coordinates *)

Offsets == {-400, 0, 300, 400}

Points == [latitude : Offsets, longitude : Offsets]

InitDistance ==
    /\ catalog = <<>>
    /\ pc = "start"
    /\ request = None
    /\ metadata = NoMetadata
    /\ search = NoSearch
    /\ match_result = None
    /\ confidence = None
    /\ response = None
    /\ selected = <<>>
    /\ calls = <<>>
    /\ db = <<>>
    /\ curator = <<>>
    /\ args \in [a : Points, b : Points]
    /\ returned = <<>>

\* the distance from a to b, from b to a and from a to itself
CallDistance ==
    /\ pc = "start"
    /\ returned' =
           [ab |-> calculate_distance(args.a.latitude, args.a.longitude,
                                      args.b.latitude, args.b.longitude),
            ba |-> calculate_distance(args.b.latitude, args.b.longitude,
                                      args.a.latitude, args.a.longitude),
            aa |-> calculate_distance(args.a.latitude, args.a.longitude,
                                      args.a.latitude, args.a.longitude)]
    /\ pc' = "done"
    /\ UNCHANGED <<catalog, request, metadata, search, match_result, confidence, response,
                   selected, calls, db, curator, args>>

NextDistance == CallDistance

SpecDistance == InitDistance /\ [][NextDistance]_vars

-----------------------------------------------------------------------------
(* Database: the tables and the spatial query of database.py *)

\* a row of historical_photos with the column defaults of the ratings
HistoricalPhoto(id, filename, source_url, latitude, longitude, is_active) ==
    [id |-> id, filename |-> filename, source_url |-> source_url,
     latitude |-> latitude, longitude |-> longitude, is_active |-> is_active,
     user_rating_avg |-> 0, user_rating_count |-> 0]

Database(photos, feedback) ==
    [historical_photos |-> photos, photo_quality_feedback |-> feedback]

\* lat_delta and lon_delta in metres: a degree of latitude is 111.195 km on
\* the sphere of calculate_distance, the query takes it as 111 km
BoxDelta(radius_km) == (radius_km * 111195) \div 111000

\* sorted(..., key=distance_km) is stable: x goes behind the items not farther
InsertByDistance(sorted, x) ==
    LET k == Cardinality({i \in DOMAIN sorted : sorted[i].distance_km <= x.distance_km})
    IN  SubSeq(sorted, 1, k) \o <<x>> \o SubSeq(sorted, k + 1, Len(sorted))

RECURSIVE SortedByDistance(_)
SortedByDistance(s) ==
    IF s = <<>> THEN <<>>
    ELSE InsertByDistance(SortedByDistance(SubSeq(s, 1, Len(s) - 1)), s[Len(s)])

\* the rows the query of find_photos_near_location selects, in the order
\* in which the database hands them out
QueryBox(table, order, latitude, longitude, radius_km) ==
    LET InBox(k) ==
            LET photo == table[order[k]]
            IN  /\ latitude - BoxDelta(radius_km) <= photo.latitude
                /\ photo.latitude <= latitude + BoxDelta(radius_km)
                /\ longitude - BoxDelta(radius_km) <= photo.longitude
                /\ photo.longitude <= longitude + BoxDelta(radius_km)
                /\ photo.is_active
        kept == SelectSeq([k \in 1..Len(order) |-> k], InBox)
    IN  [k \in 1..Len(kept) |-> order[kept[k]]]

NearbyPhoto(table, i, latitude, longitude) ==
    [photo |-> i,
     distance_km |-> calculate_distance(latitude, longitude,
                                        table[i].latitude, table[i].longitude)]

\* the query with the exact distance check left out
find_photos_near_location_boxonly(table, order, latitude, longitude, radius_km) ==
    LET photos == QueryBox(table, order, latitude, longitude, radius_km)
    IN  SortedByDistance([k \in 1..Len(photos) |->
                             NearbyPhoto(table, photos[k], latitude, longitude)])

\* distance_km is in metres here, as every distance of the model
find_photos_near_location(table, order, latitude, longitude, radius_km) ==
    LET photos == QueryBox(table, order, latitude, longitude, radius_km)
        measured == [k \in 1..Len(photos) |->
                        NearbyPhoto(table, photos[k], latitude, longitude)]
        Near(p) == p.distance_km <= radius_km
    IN  SortedByDistance(SelectSeq(measured, Near))

-----------------------------------------------------------------------------
(* Spatial query study: find_photos_near_location on tables of photos *)

MaxPhotos == 2

Places == {<<0, 0>>, <<-300, 0>>, <<300, 400>>, <<400, 400>>, <<600, 0>>}

\* tables of up to n rows; row i has id i
PhotoTables(n) ==
    UNION {{[i \in 1..k |->
                HistoricalPhoto(i, <<"seed", i>>, None, place[i][1], place[i][2],
                                active[i])] :
               place \in [1..k -> Places], active \in [1..k -> BOOLEAN]} : k \in 0..n}

\* the orders in which a query without ORDER BY can hand out n rows
Orders(n) == {o \in [1..n -> 1..n] : \A i, j \in 1..n : o[i] = o[j] => i = j}

InitNear ==
    /\ catalog = <<>>
    /\ pc = "start"
    /\ request = None
    /\ metadata = NoMetadata
    /\ search = NoSearch
    /\ match_result = None
    /\ confidence = None
    /\ response = None
    /\ selected = <<>>
    /\ calls = <<>>
    /\ db \in {Database(t, <<>>) : t \in PhotoTables(MaxPhotos)}
    /\ curator = <<>>
    /\ args \in [latitude : {0}, longitude : {0}, radius_km : {500, 1000}]
    /\ returned = <<>>

CallNear ==
    /\ pc = "start"
    /\ \E order \in Orders(Len(db.historical_photos)) :
           returned' = [order |-> order,
                        photos |-> find_photos_near_location(
                                       db.historical_photos, order, args.latitude,
                                       args.longitude, args.radius_km)]
    /\ pc' = "done"
    /\ UNCHANGED <<catalog, request, metadata, search, match_result, confidence, response,
                   selected, calls, db, curator, args>>

NextNear == CallNear

SpecNear == InitNear /\ [][NextNear]_vars

-----------------------------------------------------------------------------
(* Curation: photo_curator.py *)

\* the names of PHOTO_SOURCES
PHOTO_SOURCES ==
    <<"Library of Congress", "Flickr Commons", "Unsplash Historical", "Wikimedia Commons">>

\* the URLs of the mock data of search_library_of_congress, for i = 0, 1, ...
LOC_URLS == <<"chicago_0.jpg", "chicago_1.jpg", "chicago_2.jpg", "chicago_3.jpg",
              "chicago_4.jpg", "chicago_5.jpg", "chicago_6.jpg", "chicago_7.jpg",
              "chicago_8.jpg", "chicago_9.jpg">>

Discovered(url, source) == [url |-> url, source |-> source]

\* the same i-loop runs for each of the two search terms
search_library_of_congress(limit) ==
    LET n == Min(limit \div 2, 10)
        once == [i \in 1..n |-> Discovered(LOC_URLS[i], "Library of Congress")]
    IN  once \o once

\* answer: <<>> without API key, else <<urls>> as the API answered
search_flickr_commons(answer) ==
    IF IsNone(answer) THEN <<>>
    ELSE [i \in 1..Len(Val(answer)) |-> Discovered(Val(answer)[i], "Flickr Commons")]

search_wikimedia_commons(answer) ==
    [i \in 1..Len(answer) |-> Discovered(answer[i], "Wikimedia Commons")]

deduplicate_photos(photos) ==
    LET First(k) == \A j \in 1..(k - 1) : photos[j].url # photos[k].url
        kept == SelectSeq([k \in 1..Len(photos) |-> k], First)
    IN  [k \in 1..Len(kept) |-> photos[kept[k]]]

\* the slice s[:n]: a negative n counts from the end
UpTo(s, n) ==
    IF n >= 0 THEN SubSeq(s, 1, Min(n, Len(s))) ELSE SubSeq(s, 1, Max(Len(s) + n, 0))

\* the loop over PHOTO_SOURCES; self.search_unsplash does not exist, the
\* AttributeError is logged and the source contributes nothing
discover_photos(max_photos, flickr, wikimedia) ==
    LET photos_per_source == max_photos \div Len(PHOTO_SOURCES)
        all_photos == search_library_of_congress(photos_per_source)
                          \o search_flickr_commons(flickr)
                          \o search_wikimedia_commons(wikimedia)
        unique_photos == deduplicate_photos(all_photos)
    IN  UpTo(unique_photos, max_photos)

\* answer: <<>> when the call or the parsing of its JSON fails
ai_quality_assessment(answer) ==
    IF IsNone(answer)
    THEN [approved |-> FALSE, chicago_relevance |-> 0, historical_value |-> 0,
          image_quality |-> 0]
    ELSE LET analysis == Val(answer)
         IN  [analysis EXCEPT !.approved = /\ analysis.chicago_relevance >= 70
                                           /\ analysis.image_quality >= 50
                                           /\ analysis.historical_value >= 60]

\* base_year_hash.jpg: the hash of the URL stands for the URL
generate_filename(photo_data) == [base |-> "chicago", url_hash |-> photo_data.url]

\* extract_location_from_ai_analysis always finds a location, at least the
\* default one, and is left out
analyze_and_curate_photo(photo_data, download_ok, answer) ==
    IF ~download_ok THEN None
    ELSE LET ai_analysis == ai_quality_assessment(answer)
         IN  IF ~ai_analysis.approved THEN None
             ELSE Some([filename |-> generate_filename(photo_data),
                        original_url |-> photo_data.url,
                        source |-> photo_data.source,
                        ai_analysis |-> ai_analysis])

\* the attributes of the mapped class HistoricalPhoto
HistoricalPhotoColumns ==
    {"id", "filename", "title", "description", "year", "decade", "latitude", "longitude",
     "location_accuracy", "location_source", "photographer", "source", "source_url",
     "copyright_info", "landmarks", "dominant_colors", "brightness", "contrast",
     "has_people", "has_vehicles", "architecture_style", "viewing_direction_start",
     "viewing_direction_end", "street_address", "neighborhood", "image_quality_score",
     "historical_interest_score", "match_popularity", "user_rating_avg",
     "user_rating_count", "auto_curated", "ai_analysis_data", "curation_date",
     "approved_by_ai", "manual_review_needed", "created_at", "updated_at", "is_active"}

\* the keyword arguments of HistoricalPhoto(...) in store_curated_photos
StoreKeywords ==
    {"filename", "title", "description", "year", "decade", "source", "source_url",
     "location", "landmarks", "image_quality_score", "historical_interest_score",
     "ai_analysis_data", "auto_curated", "curation_date"}

\* one turn of the loop of store_curated_photos: the table and the count
\* after it.  The constructor of a mapped class raises TypeError for a
\* keyword that is no attribute of the class; the except branch rolls back.
StorePhoto(table, stored_count, photo_data) ==
    LET existing == \E i \in DOMAIN table :
                        \/ table[i].filename = photo_data.filename
                        \/ table[i].source_url = Some(photo_data.original_url)
    IN  IF existing
        THEN [table |-> table, stored_count |-> stored_count]
        ELSE IF ~(StoreKeywords \subseteq HistoricalPhotoColumns)
        THEN [table |-> table, stored_count |-> stored_count]
        ELSE [table |-> Append(table,
                               HistoricalPhoto(photo_data.filename, photo_data.filename,
                                               Some(photo_data.original_url), 0, 0, TRUE)),
              stored_count |-> stored_count + 1]

\* AIPhotoCurator after __init__, and its progress through run_curation_cycle
Curator(p, discovered, position, curated, processed, success, stored, open) ==
    [pc |-> p, discovered_photos |-> discovered, position |-> position,
     curated_photos |-> curated, processed_count |-> processed,
     success_count |-> success, stored_count |-> stored, db_open |-> open]

-----------------------------------------------------------------------------
(* Curation study: run_curation_cycle on a fresh curator *)

FlickrAnswers ==
    {None, Some(<<>>), Some(<<"flickr_a.jpg">>), Some(<<"flickr_a.jpg", "flickr_a.jpg">>),
     Some(<<"flickr_a.jpg", "flickr_b.jpg">>)}

WikimediaAnswers == {<<>>, <<"wikimedia_a.jpg">>}

\* the sizes a caller can pass, the endpoint's max_photos being any integer;
\* None: an argument that is no number
CycleSizes == {None, Some(-1), Some(1), Some(2), Some(8)}

\* what the vision model can answer about a photo; the last field is its
\* own approval decision
Assessment(rel, quality, hist, approved) ==
    [chicago_relevance |-> rel, image_quality |-> quality, historical_value |-> hist,
     approved |-> approved]

Assessments ==
    {Assessment(70, 50, 60, FALSE), Assessment(71, 51, 61, FALSE),
     Assessment(69, 80, 75, TRUE)}

\* the table before the cycle: empty, or a seeded row and a row of a photo
\* that the cycle can discover again
CurationTables ==
    {<<>>,
     <<HistoricalPhoto("seed", [base |-> "state_street", url_hash |-> "-"], None, 0, 0,
                       TRUE),
       HistoricalPhoto("known", [base |-> "chicago", url_hash |-> "flickr_a.jpg"],
                       Some("flickr_a.jpg"), 0, 0, TRUE)>>}

InitCuration ==
    /\ catalog = <<>>
    /\ pc = "start"
    /\ request = None
    /\ metadata = NoMetadata
    /\ search = NoSearch
    /\ match_result = None
    /\ confidence = None
    /\ response = None
    /\ selected = <<>>
    /\ calls = <<>>
    /\ db \in {Database(t, <<>>) : t \in CurationTables}
    /\ curator = Curator("start", <<>>, 0, <<>>, 0, 0, 0, TRUE)
    /\ args \in [max_photos_per_cycle : CycleSizes, flickr : FlickrAnswers,
                  wikimedia : WikimediaAnswers]
    /\ returned = <<>>

\* Phase 1, lines 79-82; an argument that is no number raises in
\* discover_photos, the cycle returns the error and closes the session
Discover ==
    /\ curator.pc = "start"
    /\ IF IsNone(args.max_photos_per_cycle)
       THEN /\ curator' = [curator EXCEPT !.pc = "done", !.db_open = FALSE]
            /\ returned' = [error |-> TRUE]
       ELSE /\ curator' = [curator EXCEPT
                               !.pc = "analyze",
                               !.discovered_photos =
                                   discover_photos(Val(args.max_photos_per_cycle),
                                                   args.flickr, args.wikimedia)]
            /\ UNCHANGED returned
    /\ UNCHANGED <<catalog, pc, request, metadata, search, match_result, confidence,
                   response, selected, calls, db, args>>

\* Phase 2, lines 86-100: one turn of the loop
Analyze ==
    /\ curator.pc = "analyze"
    /\ curator.position < Len(curator.discovered_photos)
    /\ \E download_ok \in BOOLEAN, answer \in {None} \cup {Some(a) : a \in Assessments} :
           LET photo_data == curator.discovered_photos[curator.position + 1]
               curated_photo == analyze_and_curate_photo(photo_data, download_ok, answer)
           IN  curator' = [curator EXCEPT
                              !.position = @ + 1,
                              !.curated_photos =
                                  IF IsNone(curated_photo) THEN @
                                  ELSE Append(@, Val(curated_photo)),
                              !.success_count = IF IsNone(curated_photo) THEN @ ELSE @ + 1,
                              !.processed_count = @ + 1]
    /\ UNCHANGED <<catalog, pc, request, metadata, search, match_result, confidence,
                   response, selected, calls, db, args, returned>>

\* Phase 3, line 103: store_curated_photos, the whole loop
Store ==
    /\ curator.pc = "analyze"
    /\ curator.position = Len(curator.discovered_photos)
    /\ LET RECURSIVE StoreFrom(_, _, _)
           StoreFrom(table, stored_count, k) ==
               IF k > Len(curator.curated_photos)
               THEN [table |-> table, stored_count |-> stored_count]
               ELSE LET one == StorePhoto(table, stored_count, curator.curated_photos[k])
                    IN  StoreFrom(one.table, one.stored_count, k + 1)
           after == StoreFrom(db.historical_photos, 0, 1)
       IN  /\ db' = [db EXCEPT !.historical_photos = after.table]
           /\ curator' = [curator EXCEPT !.pc = "stored",
                                         !.stored_count = after.stored_count]
    /\ UNCHANGED <<catalog, pc, request, metadata, search, match_result, confidence,
                   response, selected, calls, args, returned>>

\* Phase 4, lines 106-120: the result is returned and the session closed
Finish ==
    /\ curator.pc = "stored"
    /\ returned' = [error |-> FALSE,
                    discovered |-> Len(curator.discovered_photos),
                    processed |-> curator.processed_count,
                    stored |-> curator.stored_count]
    /\ curator' = [curator EXCEPT !.pc = "done", !.db_open = FALSE]
    /\ UNCHANGED <<catalog, pc, request, metadata, search, match_result, confidence,
                   response, selected, calls, db, args>>

NextCuration == Discover \/ Analyze \/ Store \/ Finish

SpecCuration == InitCuration /\ [][NextCuration]_vars

-----------------------------------------------------------------------------
(* Feedback: curation_api.py *)

FEEDBACK_TYPES == {"quality", "relevance", "accuracy"}

PhotoQualityFeedback(photo_id, feedback_type, rating) ==
    [photo_id |-> photo_id, feedback_type |-> feedback_type, rating |-> rating,
     reporter_type |-> "user"]

RECURSIVE SumRatings(_)
SumRatings(feedbacks) ==
    IF feedbacks = <<>> THEN 0 ELSE Head(feedbacks).rating + SumRatings(Tail(feedbacks))

\* sum / len in sixtieths, exact for up to six ratings
MeanRating(feedbacks) == (SumRatings(feedbacks) * 60) \div Len(feedbacks)

FeedbackOf(database, photo_id) ==
    SelectSeq(database.photo_quality_feedback, LAMBDA f : f.photo_id = photo_id)

\* an update that folds the newest rating into the stored average
update_photo_ratings_running(database, photo_id) ==
    LET feedbacks == FeedbackOf(database, photo_id)
        newest == feedbacks[Len(feedbacks)].rating * 60
        Running(photo) ==
            [photo EXCEPT !.user_rating_avg = IF photo.user_rating_count = 0 THEN newest
                                              ELSE (@ + newest) \div 2,
                          !.user_rating_count = @ + 1]
    IN  [database EXCEPT !.historical_photos =
            [i \in DOMAIN @ |-> IF @[i].id = photo_id THEN Running(@[i]) ELSE @[i]]]

update_photo_ratings(database, photo_id) ==
    LET feedbacks == FeedbackOf(database, photo_id)
    IN  IF feedbacks = <<>> THEN database
        ELSE [database EXCEPT !.historical_photos =
                 [i \in DOMAIN @ |->
                     IF @[i].id = photo_id
                     THEN [@[i] EXCEPT !.user_rating_avg = MeanRating(feedbacks),
                                       !.user_rating_count = Len(feedbacks)]
                     ELSE @[i]]]

\* a handler that takes any rating
submit_photo_feedback_anyrating(database, photo_id, feedback_type, rating) ==
    IF feedback_type \notin FEEDBACK_TYPES THEN [status |-> 400, db |-> database]
    ELSE IF ~\E i \in DOMAIN database.historical_photos :
                database.historical_photos[i].id = photo_id
    THEN [status |-> 404, db |-> database]
    ELSE LET added == [database EXCEPT !.photo_quality_feedback =
                          Append(@, PhotoQualityFeedback(photo_id, feedback_type, rating))]
         IN  [status |-> 200, db |-> update_photo_ratings(added, photo_id)]

\* the status of the answer and the database after the request
submit_photo_feedback(database, photo_id, feedback_type, rating) ==
    IF feedback_type \notin FEEDBACK_TYPES THEN [status |-> 400, db |-> database]
    ELSE IF ~(1 <= rating /\ rating <= 5) THEN [status |-> 400, db |-> database]
    ELSE IF ~\E i \in DOMAIN database.historical_photos :
                database.historical_photos[i].id = photo_id
    THEN [status |-> 404, db |-> database]
    ELSE LET added == [database EXCEPT !.photo_quality_feedback =
                          Append(@, PhotoQualityFeedback(photo_id, feedback_type, rating))]
         IN  [status |-> 200, db |-> update_photo_ratings(added, photo_id)]

-----------------------------------------------------------------------------
(* Feedback study: a sequence of requests to submit_photo_feedback *)

MaxFeedback == 3

FeedbackPhotoIds == {"photo-1", "photo-2", "photo-9"}

FeedbackTypes == {"accuracy", "spam"}

FeedbackRatings == {0, 1, 4, 5, 6}

\* two photos without feedback; no photo has the id photo-9
InitFeedback ==
    /\ catalog = <<>>
    /\ pc = "start"
    /\ request = None
    /\ metadata = NoMetadata
    /\ search = NoSearch
    /\ match_result = None
    /\ confidence = None
    /\ response = None
    /\ selected = <<>>
    /\ calls = <<>>
    /\ db = Database(<<HistoricalPhoto("photo-1", "state_street_1950.jpg", None, 0, 0, TRUE),
                       HistoricalPhoto("photo-2", "wrigley_1935.jpg", None, 600, 0, TRUE)>>,
                     <<>>)
    /\ curator = <<>>
    /\ args = <<>>
    /\ returned = <<>>

SubmitPhotoFeedback ==
    /\ Len(db.photo_quality_feedback) < MaxFeedback
    /\ \E photo_id \in FeedbackPhotoIds, feedback_type \in FeedbackTypes,
          rating \in FeedbackRatings :
           LET answer == submit_photo_feedback(db, photo_id, feedback_type, rating)
           IN  /\ args' = [photo_id |-> photo_id, feedback_type |-> feedback_type,
                           rating |-> rating]
               /\ db' = answer.db
               /\ returned' = [status |-> answer.status]
    /\ UNCHANGED <<catalog, pc, request, metadata, search, match_result, confidence,
                   response, selected, calls, curator>>

NextFeedback == SubmitPhotoFeedback

SpecFeedback == InitFeedback /\ [][NextFeedback]_vars

-----------------------------------------------------------------------------
(* Estimator study: calculate_confidence_score on arbitrary inputs *)

MaxLandmarkMatches == 2

ConfidenceMetadata ==
    {Metadata(None, h, None, el, None) :
        h \in {None, Some(5)},
        el \in {None} \cup
               {Some(EnhancedLocation(AiAnalysis(lm, lk), None, fc)) :
                    lm \in LandmarkSets, lk \in {50, 70, 71, 90}, fc \in {0, 30, 60, 95}}}

ConfidenceMatches ==
    {[idx |-> 1, entry |-> e, match_score |-> s, distance_meters |-> d,
      landmark_matches |-> n, match_method |-> "comprehensive_ai_analysis"] :
        e \in EntriesOver({0}, {<<0, 90>>}, {90}, {{}}),
        s \in {-20000, 0, 4999, 10000},
        d \in {0, 199, 200, 499, 500, 1500, 1501, 5000},
        n \in 0..MaxLandmarkMatches}

InitConfidence ==
    /\ catalog = <<>>
    /\ metadata \in ConfidenceMetadata
    /\ match_result \in {Some(m) : m \in ConfidenceMatches}
    /\ pc = "start"
    /\ request = None
    /\ search = NoSearch
    /\ confidence = None
    /\ response = None
    /\ selected = <<>>
    /\ calls = <<>>
    /\ db = <<>>
    /\ curator = <<>>
    /\ args = <<>>
    /\ returned = <<>>

CallConfidence ==
    /\ pc = "start"
    /\ confidence' = Some(calculate_confidence_score(metadata, Val(match_result)))
    /\ pc' = "done"
    /\ UNCHANGED <<catalog, request, metadata, search, match_result, response, selected,
                   calls, db, curator, args, returned>>

NextConfidence == CallConfidence

SpecConfidence == InitConfidence /\ [][NextConfidence]_vars

-----------------------------------------------------------------------------
(* Selector study: candidate selection for several radii on one query *)

Radii == {500, 1000, 1500}

SelectLatitudes == {0, 600, 1200}

\* the arcs of the matcher study, one wider than twice the tolerance and the
\* arc 270-360 of two entries of CHICAGO_HISTORICAL_PHOTOS
SelectArcs == Arcs \cup {<<270, 90>>, <<270, 360>>}

SelectHeadings == {None, Some(5), Some(100), Some(200)}

SelectMetadata ==
    {Metadata(None, h, None, None, Some(Coordinate(la, None, "user_gps"))) :
        h \in SelectHeadings, la \in {0, 600}}

InitSelect ==
    /\ catalog \in CatalogsOver(EntriesOver(SelectLatitudes, SelectArcs, {90}, {{}}),
                                MaxCatalog)
    /\ metadata \in SelectMetadata
    /\ pc = "start"
    /\ request = None
    /\ search = NoSearch
    /\ match_result = None
    /\ confidence = None
    /\ response = None
    /\ selected = <<>>
    /\ calls = <<>>
    /\ db = <<>>
    /\ curator = <<>>
    /\ args = <<>>
    /\ returned = <<>>

\* lines 148-162 of find_best_historical_match, run with radius r
Select(r) ==
    /\ r \notin DOMAIN selected
    /\ LET location == Val(MatchLocation(metadata))
           sel == SelectCandidates(catalog, location.latitude, location.longitude,
                                   metadata.heading, r)
       IN  selected' = [x \in (DOMAIN selected) \cup {r} |->
                           IF x = r THEN sel ELSE selected[x]]
    /\ UNCHANGED <<catalog, pc, request, metadata, search, match_result, confidence,
                   response, calls, db, curator, args, returned>>

NextSelect == \E r \in Radii : Select(r)

SpecSelect == InitSelect /\ [][NextSelect]_vars

-----------------------------------------------------------------------------
(* Concurrency study: calls of find_best_historical_match interleaved on one catalog *)

Workers == {"w1", "w2"}

WorkerMetadata ==
    {Metadata(None, h, None, Some(EnhancedLocation(AiAnalysis(lm, 50), loc, 30)), loc) :
        h \in {None, Some(200)}, lm \in LandmarkSets,
        loc \in {None, Some(Coordinate(0, None, "user_gps"))}}

Call(p, md, cands, scored, result) ==
    [pc |-> p, metadata |-> md, candidates |-> cands, scored_candidates |-> scored,
     result |-> result]

\* the matcher records the score of an entry as its interest for later runs
StoreScore_learning(database, scored) ==
    [database EXCEPT ![scored.idx] =
        [@ EXCEPT !.historical_interest_score = Some(scored.match_score \div 100)]]

\* the writes land in the entry of the database itself
StoreScore_inplace(database, scored) ==
    [database EXCEPT ![scored.idx] =
        [k \in DOMAIN @ \cup {"match_score", "distance_meters", "landmark_matches"} |->
            IF k = "match_score" THEN scored.match_score
            ELSE IF k = "distance_meters" THEN scored.distance_meters
            ELSE IF k = "landmark_matches" THEN scored.landmark_matches
            ELSE @[k]]]

\* the writes of the scoring loop go to candidate.copy(): the entry of the
\* database keeps its fields
StoreScore(database, scored) == database

InitWorkers ==
    /\ catalog \in CatalogsOver(EntriesOver({0, 600}, {<<0, 90>>}, {90}, LandmarkSets),
                                MaxPipelineCatalog)
    /\ calls \in [Workers -> {Call("start", md, <<>>, <<>>, None) : md \in WorkerMetadata}]
    /\ db = <<>>
    /\ curator = <<>>
    /\ args = <<>>
    /\ returned = <<>>
    /\ pc = "start"
    /\ request = None
    /\ metadata = NoMetadata
    /\ search = NoSearch
    /\ match_result = None
    /\ confidence = None
    /\ response = None
    /\ selected = <<>>

\* lines 133-162: the location, then the proximity and heading filters
SelectStep(w) ==
    /\ calls[w].pc = "start"
    /\ LET md == calls[w].metadata
           location == MatchLocation(md)
       IN  IF IsNone(location)
           THEN calls' = [calls EXCEPT ![w] = Call("done", md, <<>>, <<>>, None)]
           ELSE LET sel == SelectCandidates(catalog, Val(location).latitude,
                                            Val(location).longitude, md.heading, RADIUS_M)
                IN  calls' = [calls EXCEPT ![w] =
                                 Call(IF sel.candidates = <<>> THEN "done" ELSE "selected",
                                      md, sel.candidates, <<>>, None)]
    /\ UNCHANGED <<catalog, pc, request, metadata, search, match_result, confidence,
                   response, selected, db, curator, args, returned>>

\* lines 167-194: one turn of the scoring loop
ScoreStep(w) ==
    /\ calls[w].pc = "selected"
    /\ Len(calls[w].scored_candidates) < Len(calls[w].candidates)
    /\ LET md == calls[w].metadata
           location == Val(MatchLocation(md))
           i == calls[w].candidates[Len(calls[w].scored_candidates) + 1]
           scored == ScoreCandidate(i, catalog, location.latitude, location.longitude,
                                    AiLandmarks(md))
       IN  /\ calls' = [calls EXCEPT ![w].scored_candidates = Append(@, scored)]
           /\ catalog' = StoreScore(catalog, scored)
    /\ UNCHANGED <<pc, request, metadata, search, match_result, confidence, response,
                   selected, db, curator, args, returned>>

\* lines 197-202: the best scored candidate is returned
ChooseStep(w) ==
    /\ calls[w].pc = "selected"
    /\ Len(calls[w].scored_candidates) = Len(calls[w].candidates)
    /\ calls' = [calls EXCEPT ![w].pc = "done",
                              ![w].result = Some(WithMethod(BestOf(calls[w].scored_candidates)))]
    /\ UNCHANGED <<catalog, pc, request, metadata, search, match_result, confidence,
                   response, selected, db, curator, args, returned>>

NextWorkers == \E w \in Workers : SelectStep(w) \/ ScoreStep(w) \/ ChooseStep(w)

SpecWorkers == InitWorkers /\ [][NextWorkers]_vars

-----------------------------------------------------------------------------
(* Claims on the candidate selector and the match scorer *)

Done == pc = "done"

HeadingKnown == ~IsNone(metadata.heading)

\* C1 (heading fallback): after a search with a known heading, if the
\* proximity filter kept at least one entry and the heading filter kept none
\* of them, the candidates that are scored are exactly the proximity-filtered
\* list, and the match is chosen among them.
C1_HeadingFallback ==
    (Done /\ search.ran /\ HeadingKnown
          /\ search.proximity # <<>> /\ search.heading_filtered = <<>>)
        => /\ search.candidates = search.proximity
           /\ Len(search.scored_candidates) = Len(search.proximity)
           /\ ~IsNone(match_result)
           /\ Val(match_result).idx \in Range(search.proximity)

C1_Witness ==
    /\ Done /\ search.ran /\ HeadingKnown
    /\ Len(search.proximity) >= 2
    /\ \A i \in Range(search.proximity) :
           ~HeadingPasses(catalog[i], Val(metadata.heading), TOLERANCE_DEGREES)
    /\ search.candidates = search.proximity
    /\ ~IsNone(match_result)

SubsetOf(s, t) == Range(s) \subseteq Range(t)

\* C2 as stated (radius monotonicity): for radii r1 <= r2 the candidates
\* selected for r1 are among the candidates selected for r2.
C2_RadiusMonotone ==
    \A r1 \in DOMAIN selected : \A r2 \in DOMAIN selected :
        r1 <= r2 => SubsetOf(selected[r1].candidates, selected[r2].candidates)

\* C2 amended: the proximity-filtered set grows with the radius, and so does
\* the selected candidate set unless the heading filter keeps no entry within
\* r1 (fallback to the unfiltered set) but keeps some entry within r2.
C2_RadiusMonotoneAmended ==
    \A r1 \in DOMAIN selected : \A r2 \in DOMAIN selected :
        r1 <= r2 =>
            /\ SubsetOf(selected[r1].proximity, selected[r2].proximity)
            /\ (\/ ~HeadingKnown
                \/ selected[r1].heading_filtered # <<>>
                \/ selected[r2].heading_filtered = <<>>)
               => SubsetOf(selected[r1].candidates, selected[r2].candidates)

C2_Witness ==
    \E r1 \in DOMAIN selected : \E r2 \in DOMAIN selected :
        /\ r1 < r2
        /\ HeadingKnown
        /\ selected[r1].heading_filtered # <<>>
        /\ Len(selected[r1].candidates) < Len(selected[r2].candidates)
        /\ SubsetOf(selected[r1].candidates, selected[r2].candidates)

Tied(best) == {k \in DOMAIN search.scored_candidates :
                  search.scored_candidates[k].match_score = best.match_score}

\* C5 as stated (tie-break): among the candidates that share the maximum
\* score, the returned one has the lowest distance.
C5_TieBreakLowestDistance ==
    (Done /\ ~IsNone(match_result)) =>
        \A k \in Tied(Val(match_result)) :
            Val(match_result).distance_meters <= search.scored_candidates[k].distance_meters

\* C5 amended: among the candidates that share the maximum score, the
\* returned one is the first in catalog order, whatever the distances.
C5_TieBreakFirstInCatalog ==
    (Done /\ ~IsNone(match_result)) =>
        \A k \in Tied(Val(match_result)) :
            Val(match_result).idx <= search.scored_candidates[k].idx

C5_Witness ==
    /\ Done /\ ~IsNone(match_result)
    /\ \E k \in Tied(Val(match_result)) :
           /\ search.scored_candidates[k].idx > Val(match_result).idx
           /\ search.scored_candidates[k].distance_meters < Val(match_result).distance_meters

CircularDiff(a, b) == Min(Abs(a - b) % 360, 360 - (Abs(a - b) % 360))

\* C6 as stated (heading tolerance): every proximity candidate whose arc start
\* or end is within the tolerance of the heading, measured on the compass
\* circle, passes the heading filter.
C6_HeadingToleranceOnCircle ==
    (Done /\ search.ran /\ HeadingKnown) =>
        \A i \in Range(search.proximity) :
            (\E b \in {Get(catalog[i].viewing_direction_start, DEFAULT_ARC_START),
                        Get(catalog[i].viewing_direction_end, DEFAULT_ARC_END)} :
                 CircularDiff(Val(metadata.heading), b) <= TOLERANCE_DEGREES)
            => i \in Range(search.heading_filtered)

\* C8 (arg-max): when candidates survive, the match is one of them, carries
\* that candidate's score, and no surviving candidate scores higher; the
\* matcher returns None only when no candidate survives.
C8_ArgMax ==
    Done =>
        /\ search.candidates # <<>> =>
               /\ ~IsNone(match_result)
               /\ \E k \in DOMAIN search.scored_candidates :
                      /\ search.candidates[k] = Val(match_result).idx
                      /\ search.scored_candidates[k].match_score = Val(match_result).match_score
               /\ \A k \in DOMAIN search.scored_candidates :
                      search.scored_candidates[k].match_score <= Val(match_result).match_score
        /\ IsNone(match_result) => search.candidates = <<>>

C8_Witness ==
    /\ Done /\ ~IsNone(match_result)
    /\ Len(search.candidates) >= 2
    /\ Val(match_result).idx # search.candidates[1]
    /\ \A k \in DOMAIN search.scored_candidates :
           search.candidates[k] # Val(match_result).idx
               => search.scored_candidates[k].match_score < Val(match_result).match_score

-----------------------------------------------------------------------------
(* Claims on the request pipeline *)

Req == Val(request)

Resp == Val(response)

FusionRan == ~IsNone(metadata.enhanced_location)

NoFusedLocation == FusionRan /\ IsNone(Val(metadata.enhanced_location).final_location)

InRange(i) ==
    calculate_distance(Val(search.location).latitude, Val(search.location).longitude,
                       catalog[i].latitude, catalog[i].longitude) <= RADIUS_M

\* C4 as stated: a request whose location has a catalog entry within the
\* radius ends with a success response carrying the chosen entry, its
\* distance, its match method and a confidence in [20,95].
C4_MatchInRangeSucceeds ==
    (Done /\ search.ran /\ \E i \in DOMAIN catalog : InRange(i)) =>
        /\ Resp.status = 200
        /\ Resp.match = match_result
        /\ ~IsNone(Resp.confidence)
        /\ Val(Resp.confidence) >= CONFIDENCE_MIN
        /\ Val(Resp.confidence) <= CONFIDENCE_MAX

\* C7 (no radius widening): when no catalog entry lies within the radius of
\* the query location, no candidate is selected, the matcher returns None
\* and the handler answers 404, even when entries lie just beyond the radius.
C7_NoRadiusWidening ==
    (Done /\ search.ran /\ ~\E i \in DOMAIN catalog : InRange(i)) =>
        /\ search.proximity = <<>>
        /\ search.candidates = <<>>
        /\ IsNone(match_result)
        /\ Resp.status = 404

C7_Witness ==
    /\ Done /\ search.ran
    /\ ~\E i \in DOMAIN catalog : InRange(i)
    /\ \E i \in DOMAIN catalog :
           calculate_distance(Val(search.location).latitude, Val(search.location).longitude,
                              catalog[i].latitude, catalog[i].longitude) <= 2 * RADIUS_M
    /\ Resp.status = 404

-----------------------------------------------------------------------------
(* Claims on the confidence estimator *)

\* C9 (confidence clamping): whatever the inputs, the estimator returns an
\* integer between 20 and 95.
C9_ConfidenceClamped ==
    (Done /\ ~IsNone(confidence)) =>
        /\ Val(confidence) \in Int
        /\ Val(confidence) >= 20
        /\ Val(confidence) <= 95

C9_Witness ==
    /\ Done /\ ~IsNone(confidence)
    /\ Val(confidence) = 95
    /\ ConfidenceSum(metadata, Val(match_result)) > 120

C9_WitnessFloor ==
    /\ Done /\ ~IsNone(confidence)
    /\ Val(confidence) = 20
    /\ ConfidenceSum(metadata, Val(match_result)) < 20

\* the distance term of the claim, for a distance in metres
DistanceTerm(d) ==
    IF d < 200 THEN 20
    ELSE IF d < 500 THEN 10
    ELSE IF d <= 1500 THEN 0
    ELSE -15

\* C10 (confidence formula): the estimator's result is
\* clamp(50 + int(fusion_confidence*30) + 15 if likelihood > 0.7
\*       + 10 if AI landmarks + distance term + 5*landmark matches
\*       + 8 if heading known + int(score*20), 20, 95),
\* the fusion confidence being 0.3 and the AI terms 0 without fusion data.
C10_ConfidenceFormula ==
    (Done /\ ~IsNone(confidence)) =>
        LET m == Val(match_result)
            el == metadata.enhanced_location
            fc == IF IsNone(el) THEN 30 ELSE Val(el).confidence_score
            lk == IF IsNone(el) THEN 0 ELSE Val(el).ai_analysis.chicago_likelihood
            lms == IF IsNone(el) THEN {} ELSE Val(el).ai_analysis.landmarks
            total == 50 + IntDiv(fc * 30, 100)
                        + (IF lk > 70 THEN 15 ELSE 0)
                        + (IF lms # {} THEN 10 ELSE 0)
                        + DistanceTerm(m.distance_meters)
                        + 5 * m.landmark_matches
                        + (IF HeadingKnown THEN 8 ELSE 0)
                        + IntDiv(m.match_score * 20, 10000)
        IN  Val(confidence) = Min(Max(total, 20), 95)

C10_Witness ==
    /\ Done /\ ~IsNone(confidence)
    /\ Val(match_result).distance_meters = 200
    /\ Val(confidence) > 20
    /\ Val(confidence) < 95

-----------------------------------------------------------------------------
(* Claims on location fusion *)

Fused == Val(metadata.enhanced_location)

\* the device GPS of the request is present with an accuracy below 100 m
DeviceQualifies ==
    /\ ~IsNone(Req.gps)
    /\ ~IsNone(Val(Req.gps).accuracy)
    /\ Val(Val(Req.gps).accuracy) < 100

ExifQualifies == ~DeviceQualifies /\ ~IsNone(Req.exif_gps)

\* C11 (GPS priority): fusion adopts the device GPS exactly when it is present
\* with accuracy below 100 m (no accuracy counts as 1000 m), otherwise the
\* EXIF GPS when present; a device GPS of accuracy 100 m or more is never
\* adopted, and the device GPS wins when both qualify.
C11_GpsPriority ==
    (Done /\ FusionRan) =>
        /\ DeviceQualifies => Fused.final_location = Req.gps
        /\ ExifQualifies => Fused.final_location = Req.exif_gps
        /\ (~IsNone(Fused.final_location)
                /\ Val(Fused.final_location).source = "user_gps") => DeviceQualifies
        /\ (~IsNone(Fused.final_location)
                /\ Val(Fused.final_location).source = "exif_gps") => ExifQualifies

C11_Witness ==
    /\ Done /\ FusionRan
    /\ DeviceQualifies
    /\ ~IsNone(Req.exif_gps)
    /\ Val(Req.exif_gps).latitude # Val(Req.gps).latitude
    /\ Fused.final_location = Req.gps

AreaAdopted ==
    /\ ~IsNone(Fused.final_location)
    /\ Val(Fused.final_location).source = "ai_inference"

\* C12 (area fallback): the city-centre coordinate is adopted if and only if
\* neither GPS branch adopted a location and the AI likelihood exceeds 0.7;
\* without any GPS, with likelihood 0.75 and landmarks, the confidence is 0.8.
C12_AreaFallback ==
    (Done /\ FusionRan) =>
        /\ AreaAdopted <=>
               (~DeviceQualifies /\ ~ExifQualifies
                    /\ Fused.ai_analysis.chicago_likelihood > 70)
        /\ AreaAdopted => Fused.final_location = Some(AI_INFERENCE_LOCATION)
        /\ (IsNone(Req.gps) /\ IsNone(Req.exif_gps)
                /\ Fused.ai_analysis.chicago_likelihood = 75
                /\ Fused.ai_analysis.landmarks # {}) => Fused.confidence_score = 80

C12_Witness ==
    /\ Done /\ FusionRan
    /\ IsNone(Req.gps) /\ IsNone(Req.exif_gps)
    /\ Fused.ai_analysis.chicago_likelihood = 75
    /\ Fused.ai_analysis.landmarks # {}
    /\ AreaAdopted
    /\ Fused.confidence_score = 80

\* C13 (fusion confidence): the confidence is min(0.95, 0.3 + 0.4 if the
\* device GPS was adopted, else 0.3 if the EXIF GPS was + 0.2 if the
\* likelihood exceeds 0.6 + 0.1 if the AI reports landmarks + 0.2 if the area
\* fallback was adopted), whichever GPS branch fired, and lies in [0.3, 0.95].
C13_FusionConfidence ==
    (Done /\ FusionRan) =>
        LET total == 30 + (IF DeviceQualifies THEN 40 ELSE IF ExifQualifies THEN 30 ELSE 0)
                        + (IF Fused.ai_analysis.chicago_likelihood > 60 THEN 20 ELSE 0)
                        + (IF Fused.ai_analysis.landmarks # {} THEN 10 ELSE 0)
                        + (IF AreaAdopted THEN 20 ELSE 0)
        IN  /\ Fused.confidence_score = Min(95, total)
            /\ Fused.confidence_score >= 30
            /\ Fused.confidence_score <= 95

C13_Witness ==
    /\ Done /\ FusionRan
    /\ DeviceQualifies
    /\ Fused.ai_analysis.chicago_likelihood > 60
    /\ Fused.ai_analysis.landmarks # {}
    /\ Fused.confidence_score = 95

-----------------------------------------------------------------------------
(* Claims on degradation and on the outcomes of the matcher *)

VisionFailed ==
    /\ Req.metadata_ok /\ Req.image_ok /\ ~IsNone(Req.gps)
    /\ IsNone(Req.vision)

\* the same request answered by a vision provider that recognises nothing
WithoutAnalysis == process_photo([Req EXCEPT !.vision = Some({})], catalog)

\* after a failed vision call fusion, selection, scoring and estimation run
\* and give the location, the candidate and the confidence of a request
\* without AI analysis: no landmark match and no likelihood bonus
C14_DegradedAsWithoutAnalysis ==
    (Done /\ VisionFailed) =>
        /\ FusionRan
        /\ Fused.ai_analysis.landmarks = {}
        /\ Fused.ai_analysis.chicago_likelihood <= 60
        /\ search.ran
        /\ metadata.best_location = WithoutAnalysis.metadata.best_location
        /\ match_result = WithoutAnalysis.match
        /\ confidence = WithoutAnalysis.confidence
        /\ ~IsNone(match_result) =>
               /\ Val(match_result).landmark_matches = 0
               /\ ~IsNone(confidence)

\* C14 (graceful degradation): when the vision call fails, the request still
\* runs fusion, selection, scoring and confidence estimation to completion
\* with the location, candidate and confidence of a request without AI
\* analysis, and the response is never an error response.
C14_GracefulDegradation ==
    /\ C14_DegradedAsWithoutAnalysis
    /\ (Done /\ VisionFailed) => Resp.status \in {200, 404}

\* what the matcher returns for a known location without any candidate in range
NoCandidatesResult ==
    find_best_historical_match(
        [metadata EXCEPT !.best_location = Some(Coordinate(0, None, "user_gps"))],
        <<>>).result

\* C15 (distinct outcomes): the result of the matcher for 'no location
\* available' is never the result it gives for 'no candidates in range'.
C15_NoLocationDistinct ==
    (Done /\ ~search.ran /\ IsNone(MatchLocation(metadata))) =>
        match_result # NoCandidatesResult

-----------------------------------------------------------------------------
(* Claims on the score *)

\* 0.4*max(0, 1 - d/2) + 0.3*min(0.3*overlap, 1) + 0.3*interest in 1/10000,
\* for d in metres and the interest in hundredths
Composite(d, overlap, interest) ==
    Max(0, 4000 - 2 * d) + Min(900 * overlap, 3000) + 30 * interest

\* C16 (score boundedness): for every scored candidate, whatever its distance
\* and landmark overlap and for an interest in [0,1], the match score is the
\* composite of the three terms and lies in [0,1].
C16_ScoreBounded ==
    Done =>
        \A k \in DOMAIN search.scored_candidates :
            LET c == search.scored_candidates[k]
            IN  /\ c.match_score =
                       Composite(c.distance_meters, c.landmark_matches,
                                 Val(c.entry.historical_interest_score))
                /\ c.match_score >= 0
                /\ c.match_score <= 10000

C16_Witness ==
    /\ Done
    /\ \E k \in DOMAIN search.scored_candidates :
           /\ search.scored_candidates[k].landmark_matches = 4
           /\ search.scored_candidates[k].match_score = 10000
    /\ \E k \in DOMAIN search.scored_candidates :
           /\ search.scored_candidates[k].distance_meters > 2000
           /\ search.scored_candidates[k].match_score = 0

\* a scored candidate with one landmark match and one with none, of equal interest
MatchingPair(a, b) ==
    /\ a.landmark_matches = 1
    /\ b.landmark_matches = 0
    /\ a.entry.historical_interest_score = b.entry.historical_interest_score

\* C17 (landmark preference): the landmark overlap of a candidate is the
\* number of landmarks it shares with the AI analysis, 0 without AI analysis;
\* of two candidates of equal interest, one with exactly one landmark match
\* and one with none, the matching one scores higher and is chosen when it is
\* less than 0.45 km farther, the closer one when the gap exceeds 0.45 km.
C17_LandmarkPreference ==
    (Done /\ search.ran) =>
        LET scored == search.scored_candidates
        IN  /\ \A k \in DOMAIN scored :
                   scored[k].landmark_matches =
                       IF IsNone(metadata.enhanced_location) THEN 0
                       ELSE Cardinality(Val(metadata.enhanced_location).ai_analysis.landmarks
                                            \cap scored[k].entry.landmarks)
            /\ \A j, k \in DOMAIN scored :
                   MatchingPair(scored[j], scored[k]) =>
                       LET gap == scored[j].distance_meters - scored[k].distance_meters
                       IN  /\ gap < 450 =>
                                  /\ scored[j].match_score > scored[k].match_score
                                  /\ Val(match_result).idx # scored[k].idx
                                  /\ Len(scored) = 2 => Val(match_result).idx = scored[j].idx
                           /\ gap > 450 =>
                                  /\ scored[k].match_score > scored[j].match_score
                                  /\ Val(match_result).idx # scored[j].idx
                                  /\ Len(scored) = 2 => Val(match_result).idx = scored[k].idx

\* the matching candidate wins although it is 300 m farther
C17_Witness ==
    /\ Done /\ search.ran
    /\ Len(search.scored_candidates) = 2
    /\ \E j, k \in DOMAIN search.scored_candidates :
           /\ MatchingPair(search.scored_candidates[j], search.scored_candidates[k])
           /\ search.scored_candidates[j].distance_meters
                  - search.scored_candidates[k].distance_meters = 300
           /\ Val(match_result).idx = search.scored_candidates[j].idx

\* the closer candidate wins over a matching one 600 m farther
C17_WitnessCloser ==
    /\ Done /\ search.ran
    /\ Len(search.scored_candidates) = 2
    /\ \E j, k \in DOMAIN search.scored_candidates :
           /\ MatchingPair(search.scored_candidates[j], search.scored_candidates[k])
           /\ search.scored_candidates[j].distance_meters
                  - search.scored_candidates[k].distance_meters = 600
           /\ Val(match_result).idx = search.scored_candidates[k].idx

-----------------------------------------------------------------------------
(* Claims on the catalog under concurrent calls *)

CatalogUnchanged == [][catalog' = catalog]_vars

ResultAsAlone ==
    \A w \in DOMAIN calls :
        calls[w].pc = "done" =>
            calls[w].result = find_best_historical_match(calls[w].metadata, catalog).result

\* C19 (catalog read-only): no step of a matching call adds, removes or
\* changes a catalog entry, and under every interleaving of the steps of
\* concurrent calls each call returns what it returns when run alone.
C19_CatalogReadOnly == CatalogUnchanged /\ []ResultAsAlone

\* both calls have candidates; one is between selection and scoring while the
\* other, started on other metadata, has already returned a match
C19_Witness ==
    /\ DOMAIN calls = Workers
    /\ calls["w1"].pc = "selected"
    /\ calls["w1"].scored_candidates = <<>>
    /\ Len(calls["w1"].candidates) = 2
    /\ calls["w2"].pc = "done"
    /\ ~IsNone(calls["w2"].result)
    /\ calls["w2"].metadata # calls["w1"].metadata

-----------------------------------------------------------------------------
(* Claims on wrapping arcs *)

\* entry i has an arc through north that contains heading h
WrapsAround(i, h) ==
    LET start == Val(catalog[i].viewing_direction_start)
        end == Val(catalog[i].viewing_direction_end)
    IN  start > end /\ (h >= start \/ h <= end)

\* C20 (wrapping arcs): an entry within the radius whose arc has start > end
\* passes the heading filter for every heading h with h >= start or
\* h <= end; an entry with arc 350-10 at the query point is selected for
\* heading 5.
C20_WrappingArcs ==
    HeadingKnown =>
        \A r \in DOMAIN selected :
            \A i \in Range(selected[r].proximity) :
                WrapsAround(i, Val(metadata.heading)) =>
                    /\ i \in Range(selected[r].heading_filtered)
                    /\ i \in Range(selected[r].candidates)

\* heading 5 lies in the arc 270-90 of an entry in range, more than the
\* tolerance away from both ends of the arc, and the entry is selected
C20_Witness ==
    /\ metadata.heading = Some(5)
    /\ \E r \in DOMAIN selected :
           \E i \in Range(selected[r].candidates) :
               /\ catalog[i].viewing_direction_start = Some(270)
               /\ catalog[i].viewing_direction_end = Some(90)

\* heading 5, the only entry has arc 350-10 and lies at the query point
C20_WitnessScenario ==
    /\ metadata.heading = Some(5)
    /\ Len(catalog) = 1
    /\ catalog[1].viewing_direction_start = Some(350)
    /\ catalog[1].viewing_direction_end = Some(10)
    /\ catalog[1].latitude = Val(MatchLocation(metadata)).latitude
    /\ RADIUS_M \in DOMAIN selected
    /\ selected[RADIUS_M].candidates = <<1>>

-----------------------------------------------------------------------------
(* Claims on repeated runs *)

-----------------------------------------------------------------------------
(* Claims on the distance *)

-----------------------------------------------------------------------------
(* Claims on the viewing arcs *)

\* C22 (viewing arc): for every entry the heading filter looks at, the start
\* and the end of the viewing arc, defaults included, are in [0,360).
C22_ViewingArcRange ==
    HeadingKnown =>
        \A r \in DOMAIN selected :
            \A i \in Range(selected[r].proximity) :
                LET start == Get(catalog[i].viewing_direction_start, DEFAULT_ARC_START)
                    end == Get(catalog[i].viewing_direction_end, DEFAULT_ARC_END)
                IN  /\ 0 <= start /\ start < 360
                    /\ 0 <= end /\ end < 360

-----------------------------------------------------------------------------
(* Claims on the handler: client errors and the range of the confidence *)

\* C24 (client errors keep their status): a request whose metadata has no
\* gps is answered with status 400, and so is a request whose file is not
\* an image; neither is answered with 500.
C24_ClientErrorsKeepStatus ==
    (Done /\ Req.metadata_ok) =>
        /\ IsNone(Req.gps) => Resp.status = 400
        /\ (~IsNone(Req.gps) /\ ~Req.image_ok) => Resp.status = 400

\* C25 (confidence in the pipeline): every match handed to
\* calculate_confidence_score lies within 1000 m, so the penalty beyond
\* 1500 m is never applied and the confidence is the sum of the terms capped
\* at 95, never the lower clamp of 20.
C25_PipelineConfidence ==
    (Done /\ ~IsNone(confidence)) =>
        /\ ~IsNone(match_result)
        /\ Val(match_result).distance_meters <= 1000
        /\ ~(Val(match_result).distance_meters > 1500)
        /\ ConfidenceSum(metadata, Val(match_result)) > CONFIDENCE_MIN
        /\ Val(confidence) = Min(ConfidenceSum(metadata, Val(match_result)), CONFIDENCE_MAX)

\* a match in the band from 500 m to the radius, which earns no distance bonus
C25_Witness ==
    /\ Done /\ ~IsNone(confidence)
    /\ Val(match_result).distance_meters = 600
    /\ Val(confidence) = 70

-----------------------------------------------------------------------------
(* Claims on the spatial query *)

\* C21 (exact distance after the bounding box): every photo returned by
\* find_photos_near_location is active and lies within the radius, with its
\* exact distance attached, and the list is in non-decreasing distance.
C21_NearWithinRadius ==
    (Done /\ returned # <<>>) =>
        LET photos == returned.photos
            table == db.historical_photos
        IN  /\ \A k \in DOMAIN photos :
                   /\ table[photos[k].photo].is_active
                   /\ photos[k].distance_km =
                          calculate_distance(args.latitude, args.longitude,
                                             table[photos[k].photo].latitude,
                                             table[photos[k].photo].longitude)
                   /\ photos[k].distance_km <= args.radius_km
            /\ \A j, k \in DOMAIN photos :
                   j < k => photos[j].distance_km <= photos[k].distance_km

\* an active photo in the corner of the box is left out, another one is kept
C21_Witness ==
    /\ Done /\ returned # <<>>
    /\ args.radius_km = 500
    /\ \E i \in DOMAIN db.historical_photos :
           /\ db.historical_photos[i].is_active
           /\ db.historical_photos[i].latitude = 400
           /\ db.historical_photos[i].longitude = 400
           /\ \A k \in DOMAIN returned.photos : returned.photos[k].photo # i
    /\ Len(returned.photos) = 1

\* two photos come back in the reverse of the order of the query
C21_WitnessSorted ==
    /\ Done /\ returned # <<>>
    /\ Len(returned.photos) = 2
    /\ returned.photos[1].distance_km < returned.photos[2].distance_km
    /\ \E j, k \in DOMAIN returned.order :
           /\ j < k
           /\ returned.order[j] = returned.photos[2].photo
           /\ returned.order[k] = returned.photos[1].photo

-----------------------------------------------------------------------------
(* Claims about the curation cycle *)

StrictlyAboveMinimum(analysis) ==
    /\ analysis.chicago_relevance > 70
    /\ analysis.image_quality > 50
    /\ analysis.historical_value > 60

\* C26: a photo is approved for curation only when its Chicago relevance is
\* above 70, its image quality above 50 and its historical value above 60,
\* whatever approval the vision model returned itself
C26_ApprovalAboveMinimum ==
    \A k \in DOMAIN curator.curated_photos :
        StrictlyAboveMinimum(curator.curated_photos[k].ai_analysis)

Present(table, photo_data) ==
    \E i \in DOMAIN table :
        \/ table[i].filename = photo_data.filename
        \/ table[i].source_url = Some(photo_data.original_url)

\* C27: store_curated_photos inserts and counts every curated photo whose
\* filename and URL are not yet in the table, skips the others, and
\* stored_count is the number of new records
C27_StoreInsertsNew ==
    [][curator.pc = "analyze" /\ curator'.pc = "stored" =>
          LET before == db.historical_photos
              after == db'.historical_photos
              new == (Len(before) + 1)..Len(after)
          IN  /\ SubSeq(after, 1, Len(before)) = before
              /\ \A k \in DOMAIN curator.curated_photos :
                     LET photo_data == curator.curated_photos[k]
                         inserted == \E i \in new :
                                         after[i].filename = photo_data.filename
                     IN  inserted <=> ~Present(before, photo_data)
              /\ curator'.stored_count = Len(after) - Len(before)]_vars

NoDuplicateUrls(photos) ==
    \A i, j \in DOMAIN photos : photos[i].url = photos[j].url => i = j

\* C28: a cycle that returns a result has stored <= success_count <=
\* processed <= discovered <= max_photos_per_cycle and no URL twice among the
\* discovered photos, and the session is closed however the cycle ends
C28_CycleCounts ==
    curator.pc = "done" =>
        /\ ~curator.db_open
        /\ ~returned.error =>
               /\ returned.stored <= curator.success_count
               /\ curator.success_count <= returned.processed
               /\ returned.processed <= returned.discovered
               /\ returned.discovered <= Val(args.max_photos_per_cycle)
               /\ returned.discovered = Len(curator.discovered_photos)
               /\ NoDuplicateUrls(curator.discovered_photos)

-----------------------------------------------------------------------------
(* Claims about photo feedback *)

KnownPhoto(photo_id) ==
    \E i \in DOMAIN db.historical_photos : db.historical_photos[i].id = photo_id

\* C29: a request with a feedback type outside quality, relevance, accuracy
\* or a rating outside 1..5 is answered 400, a request with an unknown photo
\* id 404, and in each case no feedback record is created and no photo's
\* user_rating_avg or user_rating_count changes
C29_FeedbackValidation ==
    [][LET invalid == \/ args'.feedback_type \notin {"quality", "relevance", "accuracy"}
                      \/ args'.rating < 1
                      \/ args'.rating > 5
       IN  /\ invalid => returned'.status = 400 /\ db' = db
           /\ ~invalid /\ ~KnownPhoto(args'.photo_id) =>
                  returned'.status = 404 /\ db' = db]_vars

\* a rating of 6 for a photo that already has feedback is refused
C29_Witness ==
    /\ returned # <<>>
    /\ returned.status = 400
    /\ args.rating = 6
    /\ args.feedback_type = "accuracy"
    /\ KnownPhoto(args.photo_id)
    /\ \E f \in Range(db.photo_quality_feedback) : f.photo_id = args.photo_id

\* a valid rating for a photo that does not exist
C29_WitnessUnknown ==
    /\ returned # <<>>
    /\ returned.status = 404
    /\ args.rating = 5
    /\ args.feedback_type = "accuracy"
    /\ ~KnownPhoto(args.photo_id)
    /\ db.photo_quality_feedback # <<>>

\* C30: every photo's user_rating_count is the number of feedback records
\* stored for it and its user_rating_avg is the mean of their ratings,
\* between 1 and 5 once the photo has feedback
C30_RatingAggregate ==
    \A i \in DOMAIN db.historical_photos :
        LET photo == db.historical_photos[i]
            records == SelectSeq(db.photo_quality_feedback,
                                 LAMBDA f : f.photo_id = photo.id)
        IN  /\ photo.user_rating_count = Len(records)
            /\ records # <<>> =>
                   /\ photo.user_rating_avg * Len(records) = SumRatings(records) * 60
                   /\ 1 * 60 <= photo.user_rating_avg
                   /\ photo.user_rating_avg <= 5 * 60

\* one photo rated 1, 1 and 5: three records and a mean of 7/3
C30_Witness ==
    \E i \in DOMAIN db.historical_photos :
        /\ db.historical_photos[i].user_rating_count = 3
        /\ db.historical_photos[i].user_rating_avg = 140

\* two photos with feedback of their own
C30_WitnessTwoPhotos ==
    /\ db.historical_photos[1].user_rating_count = 2
    /\ db.historical_photos[1].user_rating_avg = 150
    /\ db.historical_photos[2].user_rating_count = 1
    /\ db.historical_photos[2].user_rating_avg = 300

====
